---------------------------- MODULE Spec2Model ----------------------------
(***************************************************************************)
(* Model of part1-database-etl/etl_pipeline.py: the three cleaners         *)
(* (transform_customers, transform_products, transform_sales), the load    *)
(* helpers and main().                                                     *)
(*                                                                         *)
(* Text cells are sequences of one-character strings; an absent cell (the  *)
(* NaN pandas produces for an empty CSV field) is the cell NA.  Numbers    *)
(* are integers counted in units of 1/Scale; the float NaN is NAN.         *)
(* Columns that no condition of the code reads and that are copied through *)
(* unchanged (last_name, phone, city, registration_date, category,         *)
(* status) are left out of the rows; first_name and product_name stand for *)
(* the non-key fields of a row.                                            *)
(***************************************************************************)
EXTENDS Integers, Sequences, FiniteSets, TLC

(***************************************************************************)
(* Bounds of the model.                                                    *)
(***************************************************************************)
\* rows of customers_raw.csv and of products_raw.csv given to the cleaners
MaxCustomers == 3
MaxProducts == 2
\* rows of sales_raw.csv given to the cleaners
MaxSales == 3
\* rows of each file in the runs that go on to load the store
MaxLoadRows == 2
\* runs of the program on one store
MaxRuns == 2

(***************************************************************************)
(* Text and numbers.                                                       *)
(***************************************************************************)
\* the NaN cell of a data frame read with dtype=str
NA == <<"<NA>">>

\* numbers are held as integer multiples of 1/Scale: every input with up to
\* three decimals, and every mean of two of them, is exact
Scale == 2000

\* float NaN
NAN == -999999999

RECURSIVE LStrip(_)
LStrip(s) == IF s # <<>> /\ Head(s) = " " THEN LStrip(Tail(s)) ELSE s

RECURSIVE RStrip(_)
RStrip(s) ==
    IF s # <<>> /\ s[Len(s)] = " " THEN RStrip(SubSeq(s, 1, Len(s) - 1)) ELSE s

\* x.strip() if isinstance(x, str) else x
Strip(x) == IF x = NA THEN NA ELSE RStrip(LStrip(x))

\* .replace({"": None})
EmptyToNA(x) == IF x = <<>> THEN NA ELSE x

\* str(x).strip() of a cell: NaN prints as "nan"
StrOf(x) == IF x = NA THEN <<"n", "a", "n">> ELSE Strip(x)

Digits == <<"0", "1", "2", "3", "4", "5", "6", "7", "8", "9">>

IsDigit(c) == \E i \in 1..10 : Digits[i] = c

DigitVal(c) == (CHOOSE i \in 1..10 : Digits[i] = c) - 1

AllDigits(s) == \A i \in 1..Len(s) : IsDigit(s[i])

RECURSIVE NatOf(_)
NatOf(s) == IF s = <<>> THEN 0
            ELSE 10 * NatOf(SubSeq(s, 1, Len(s) - 1)) + DigitVal(s[Len(s)])

\* position of the first "." of s, or 0
DotPos(s) == IF \E i \in 1..Len(s) : s[i] = "."
             THEN CHOOSE i \in 1..Len(s) : s[i] = "." /\ \A j \in 1..(i - 1) : s[j] # "."
             ELSE 0

Pow10(n) == CASE n = 0 -> 1 [] n = 1 -> 10 [] n = 2 -> 100 [] OTHER -> 1000

\* an unsigned decimal literal with at most three decimals, in units of 1/Scale
UnsignedOf(s) ==
    LET d == DotPos(s)
        ip == IF d = 0 THEN s ELSE SubSeq(s, 1, d - 1)
        fp == IF d = 0 THEN <<>> ELSE SubSeq(s, d + 1, Len(s))
    IN  IF /\ AllDigits(ip) /\ AllDigits(fp)
           /\ Len(ip) + Len(fp) > 0
           /\ Len(fp) <= 3
        THEN NatOf(ip) * Scale + (NatOf(fp) * Scale) \div Pow10(Len(fp))
        ELSE NAN

\* pd.to_numeric(x, errors="coerce")
ToNumeric(x) ==
    IF x = NA THEN NAN
    ELSE LET s == Strip(x)
         IN  IF s = <<>> THEN NAN
             ELSE IF Head(s) = "-"
                  THEN LET u == UnsignedOf(Tail(s)) IN IF u = NAN THEN NAN ELSE 0 - u
                  ELSE UnsignedOf(s)

\* the nearest multiple of unit to n >= 0, ties to the even multiple
RoundHalfEven(n, unit) ==
    LET q == n \div unit
        r == n % unit
    IN  IF 2 * r < unit THEN q
        ELSE IF 2 * r > unit THEN q + 1
        ELSE IF q % 2 = 0 THEN q ELSE q + 1

\* the number of hundredths nearest to x
Cents(x) == IF x >= 0 THEN RoundHalfEven(x, Scale \div 100)
            ELSE 0 - RoundHalfEven(0 - x, Scale \div 100)

RECURSIVE NatText(_)
NatText(n) == IF n < 10 THEN <<Digits[n + 1]>>
              ELSE NatText(n \div 10) \o <<Digits[(n % 10) + 1]>>

\* f"{float(x):.2f}"
Format2f(x) ==
    LET c == Cents(x)
        a == IF c < 0 THEN 0 - c ELSE c
    IN  (IF x < 0 THEN <<"-">> ELSE <<>>)
        \o NatText(a \div 100) \o <<".">>
        \o <<Digits[((a \div 10) % 10) + 1], Digits[(a % 10) + 1]>>


(***************************************************************************)
(* parse_date.                                                             *)
(***************************************************************************)
NoDate == [y |-> 0, m |-> 0, d |-> 0]

\* the fields of s between occurrences of sep
RECURSIVE Split(_, _)
Split(s, sep) ==
    IF \E i \in 1..Len(s) : s[i] = sep
    THEN LET i == CHOOSE k \in 1..Len(s) : s[k] = sep /\ \A j \in 1..(k - 1) : s[j] # sep
         IN  <<SubSeq(s, 1, i - 1)>> \o Split(SubSeq(s, i + 1, Len(s)), sep)
    ELSE <<s>>

IsLeap(y) == (y % 4 = 0 /\ y % 100 # 0) \/ y % 400 = 0

DaysIn(y, m) == CASE m \in {4, 6, 9, 11} -> 30
                  [] m = 2 -> IF IsLeap(y) THEN 29 ELSE 28
                  [] OTHER -> 31

\* datetime.strptime(s, fmt).date() for a format of three numeric fields in
\* the order ord (a permutation of "Y", "m", "d") separated by sep;
\* NoDate where strptime raises ValueError
Strptime(s, sep, ord) ==
    LET f == Split(s, sep)
        pos(c) == CHOOSE i \in 1..3 : ord[i] = c
    IN  IF Len(f) # 3 \/ \E i \in 1..3 : ~AllDigits(f[i]) \/ f[i] = <<>>
        THEN NoDate
        ELSE LET fy == f[pos("Y")]
                 fm == f[pos("m")]
                 fd == f[pos("d")]
             IN  IF /\ Len(fy) = 4
                    /\ Len(fm) <= 2 /\ NatOf(fm) \in 1..12
                    /\ Len(fd) <= 2 /\ NatOf(fd) \in 1..DaysIn(NatOf(fy), NatOf(fm))
                    /\ NatOf(fy) >= 1
                 THEN [y |-> NatOf(fy), m |-> NatOf(fm), d |-> NatOf(fd)]
                 ELSE NoDate

DATE_FORMATS == <<
    [sep |-> "-", ord |-> <<"Y", "m", "d">>],
    [sep |-> "/", ord |-> <<"d", "m", "Y">>],
    [sep |-> "-", ord |-> <<"m", "d", "Y">>],
    [sep |-> "/", ord |-> <<"m", "d", "Y">>],
    [sep |-> "-", ord |-> <<"d", "m", "Y">> ] >>

\* pd.to_datetime(s, errors="coerce", dayfirst=...): the generic parser of
\* pandas; every text of the model that reaches it is one it rejects (NaT)
PandasToDatetime(s, dayfirst) == NoDate

Sentinels == { <<"n", "a", "n">>, <<"n", "o", "n", "e">>, <<"n", "u", "l", "l">> }

parse_date(value) ==
    IF value = NA THEN NoDate
    ELSE LET s == Strip(value)
             hits == {i \in 1..Len(DATE_FORMATS) :
                        Strptime(s, DATE_FORMATS[i].sep, DATE_FORMATS[i].ord) # NoDate}
         IN  IF s = <<>> \/ s \in Sentinels THEN NoDate
             ELSE IF hits # {}
                  THEN LET i == CHOOSE k \in hits : \A j \in hits : k <= j
                       IN  Strptime(s, DATE_FORMATS[i].sep, DATE_FORMATS[i].ord)
                  ELSE IF PandasToDatetime(s, FALSE) # NoDate
                       THEN PandasToDatetime(s, FALSE)
                       ELSE PandasToDatetime(s, TRUE)

(***************************************************************************)
(* Data frames: sequences of rows (records).                               *)
(***************************************************************************)
\* df[mask]: the rows of df whose index is in keep, in order
RECURSIVE RowsAt(_, _)
RowsAt(df, keep) ==
    IF df = <<>> THEN <<>>
    ELSE LET n == Len(df)
             front == RowsAt(SubSeq(df, 1, n - 1), keep)
         IN  IF n \in keep THEN Append(front, df[n]) ELSE front

\* df.drop_duplicates(subset=[col], keep="first")
DropDuplicates(df, subset) ==
    RowsAt(df, {i \in 1..Len(df) : \A j \in 1..(i - 1) : df[j][subset] # df[i][subset]})

\* QualityCounts(rows_read=n)
QualityCounts(n) ==
    [rows_read |-> n, duplicates_removed |-> 0, rows_dropped |-> 0,
     missing_filled |-> 0, loaded |-> 0, notes |-> <<>>]

\* the dict built by assigning vals[i] to keys[i] for i in order
DictOf(keys, vals) ==
    [k \in {keys[i] : i \in 1..Len(keys)} |->
        LET last == CHOOSE i \in 1..Len(keys) :
                        keys[i] = k /\ \A j \in (i + 1)..Len(keys) : keys[j] # k
        IN  vals[last]]

(***************************************************************************)
(* transform_customers.  A cleaner is the composition of its steps; each   *)
(* step takes and returns the frame df and the counts qc.                  *)
(***************************************************************************)
\* lines 240-249: the counts, the trim of every cell, email "" -> None
CustomersStandardise(df0) ==
    [df |-> [i \in 1..Len(df0) |->
               [customer_id |-> Strip(df0[i].customer_id),
                first_name |-> Strip(df0[i].first_name),
                email |-> EmptyToNA(Strip(df0[i].email))]],
     qc |-> QualityCounts(Len(df0))]

\* df with the rows of kept, rows_dropped raised by the number removed and a
\* note of that number when it is not zero
Dropped(st, kept, note) ==
    [df |-> kept,
     qc |-> [st.qc EXCEPT
               !.rows_dropped = @ + (Len(st.df) - Len(kept)),
               !.notes = IF Len(st.df) - Len(kept) > 0
                         THEN Append(@, [note |-> note, n |-> Len(st.df) - Len(kept)])
                         ELSE @]]

\* Deduplicated without the count of the rows removed
Deduplicated_NotCounted(st, kept) == [df |-> kept, qc |-> st.qc]

\* df with the rows of kept, duplicates_removed raised by the number removed
Deduplicated(st, kept) ==
    [df |-> kept,
     qc |-> [st.qc EXCEPT !.duplicates_removed = @ + (Len(st.df) - Len(kept))]]

\* lines 251-257
CustomersDropMissingEmail(st) ==
    Dropped(st, RowsAt(st.df, {i \in 1..Len(st.df) : st.df[i].email # NA}), "missing email")

\* CustomersDeduplicate without the drop_duplicates
CustomersDeduplicate_Skipped(st) == Deduplicated(st, st.df)

\* lines 259-262
CustomersDeduplicate(st) ==
    Deduplicated(st, DropDuplicates(st.df, "email"))

\* lines 264-274
CustomersResult(st) ==
    LET Email(r) == r.email
        RawId(r) == StrOf(r.customer_id)
    IN  [cleaned |-> [i \in 1..Len(st.df) |->
                        [first_name |-> st.df[i].first_name, email |-> st.df[i].email]],
         df |-> st.df,
         qc |-> st.qc,
         raw_to_email |-> DictOf([i \in 1..Len(st.df) |-> RawId(st.df[i])],
                                [i \in 1..Len(st.df) |-> Email(st.df[i])])]

transform_customers(df0) ==
    CustomersResult(CustomersDeduplicate(CustomersDropMissingEmail(
        CustomersStandardise(df0))))

(***************************************************************************)
(* transform_products.                                                     *)
(***************************************************************************)
\* s with x inserted before the first element greater than x
RECURSIVE InsertSorted(_, _)
InsertSorted(s, x) ==
    IF s = <<>> THEN <<x>>
    ELSE IF x <= Head(s) THEN <<x>> \o s
    ELSE <<Head(s)>> \o InsertSorted(Tail(s), x)

RECURSIVE SortedValues(_)
SortedValues(s) == IF s = <<>> THEN <<>> ELSE InsertSorted(SortedValues(Tail(s)), Head(s))

\* MiddleOf taking the lower of the two middle values when their number is even
MiddleOf_LowerMiddle(v) ==
    IF Len(v) = 0 THEN NAN
    ELSE IF Len(v) % 2 = 1 THEN v[(Len(v) + 1) \div 2]
    ELSE v[Len(v) \div 2]

\* the middle of the sorted values v, the mean of the two middle ones when
\* their number is even
MiddleOf(v) ==
    IF Len(v) = 0 THEN NAN
    ELSE IF Len(v) % 2 = 1 THEN v[(Len(v) + 1) \div 2]
    ELSE (v[Len(v) \div 2] + v[(Len(v) \div 2) + 1]) \div 2

\* Series.median() of the values of s that are not NaN; NaN if there is none
Median(s) ==
    LET IsNum(x) == x # NAN
    IN  MiddleOf(SortedValues(SelectSeq(s, IsNum)))

\* lines 297-299: the sales rows trimmed, those without product_id removed
SalesPrices(df_sales) ==
    LET HasPid(r) == r.product_id # NA /\ r.product_id # <<>>
    IN  SelectSeq([i \in 1..Len(df_sales) |->
                     [product_id |-> Strip(df_sales[i].product_id),
                      unit_price |-> Strip(df_sales[i].unit_price)]], HasPid)

\* line 300, for the rows of one product
UnitPriceNums(sales_prices, pid) ==
    LET OfPid(r) == r.product_id = pid
        Num(rows) == [i \in 1..Len(rows) |-> ToNumeric(rows[i].unit_price)]
    IN  Num(SelectSeq(sales_prices, OfPid))

\* line 301: sales_prices.groupby("product_id")["unit_price_num"].median().to_dict()
GroupMedians(sales_prices) ==
    [pid \in {sales_prices[i].product_id : i \in 1..Len(sales_prices)} |->
        Median(UnitPriceNums(sales_prices, pid))]

MedianByPid(df_sales) == GroupMedians(SalesPrices(df_sales))

\* .astype(int) of a float: the integer part
AsInt(x) == IF x >= 0 THEN x \div Scale ELSE 0 - ((0 - x) \div Scale)

\* lines 281-285
ProductsStandardise(df0) ==
    [df |-> [i \in 1..Len(df0) |->
               [product_id |-> Strip(df0[i].product_id),
                product_name |-> StrOf(df0[i].product_name),
                price |-> Strip(df0[i].price),
                stock_quantity |-> Strip(df0[i].stock_quantity)]],
     qc |-> QualityCounts(Len(df0))]

\* lines 287-291: a missing stock_quantity becomes "0" and is counted
ProductsFillStock(st) ==
    [df |-> [i \in 1..Len(st.df) |->
               [st.df[i] EXCEPT !.stock_quantity = IF EmptyToNA(@) = NA THEN <<"0">> ELSE @]],
     qc |-> [st.qc EXCEPT !.missing_filled =
               @ + Cardinality({i \in 1..Len(st.df) : st.df[i].stock_quantity = NA})
                 + Cardinality({i \in 1..Len(st.df) : st.df[i].stock_quantity = <<>>})]]

\* line 308: med is not None and pd.notna(med), for the row r
HasMedian(r, median_by_pid) ==
    /\ StrOf(r.product_id) \in DOMAIN median_by_pid
    /\ median_by_pid[StrOf(r.product_id)] # NAN

\* lines 303-312: the rows without price take the median of their product
FilledFrom(st, median_by_pid) ==
    [df |-> [i \in 1..Len(st.df) |->
               IF st.df[i].price = NA /\ HasMedian(st.df[i], median_by_pid)
               THEN [st.df[i] EXCEPT
                       !.price = Format2f(median_by_pid[StrOf(st.df[i].product_id)])]
               ELSE st.df[i]],
     qc |-> [st.qc EXCEPT !.missing_filled =
               @ + Cardinality({i \in 1..Len(st.df) :
                      st.df[i].price = NA /\ HasMedian(st.df[i], median_by_pid)})]]

\* line 294: price "" -> None
ProductsPriceToNA(st) ==
    [df |-> [i \in 1..Len(st.df) |-> [st.df[i] EXCEPT !.price = EmptyToNA(@)]],
     qc |-> st.qc]

\* lines 293-312
ProductsFillPrice(st, df_sales) == FilledFrom(ProductsPriceToNA(st), MedianByPid(df_sales))

\* lines 314-322
ProductsDropMissingPrice(st) ==
    Dropped(st, RowsAt(st.df, {i \in 1..Len(st.df) : st.df[i].price # NA}), "missing price")

\* lines 324-327
ProductsDeduplicate(st) ==
    Deduplicated(st, DropDuplicates(st.df, "product_id"))

\* line 338: pd.to_numeric(..., errors="coerce").fillna(0).astype(int)
StockOf(x) == IF ToNumeric(x) = NAN THEN 0 ELSE AsInt(ToNumeric(x))

\* lines 329-340
ProductsResult(st) ==
    LET RawId(r) == StrOf(r.product_id)
        Name(r) == r.product_name
    IN  [cleaned |-> [i \in 1..Len(st.df) |->
                        [product_name |-> st.df[i].product_name,
                         price |-> ToNumeric(st.df[i].price),
                         stock_quantity |-> StockOf(st.df[i].stock_quantity)]],
         df |-> st.df,
         qc |-> st.qc,
         raw_to_name |-> DictOf([i \in 1..Len(st.df) |-> RawId(st.df[i])],
                               [i \in 1..Len(st.df) |-> Name(st.df[i])])]

transform_products(df0, df_sales) ==
    ProductsResult(ProductsDeduplicate(ProductsDropMissingPrice(
        ProductsFillPrice(ProductsFillStock(ProductsStandardise(df0)), df_sales))))

(***************************************************************************)
(* transform_sales.                                                        *)
(***************************************************************************)
\* (quantity_num * unit_price_num).round(2)
Subtotal(q, p) == RoundHalfEven(q * p, Scale * (Scale \div 100)) * (Scale \div 100)

\* lines 347-349
SalesStandardise(df0) ==
    [df |-> [i \in 1..Len(df0) |->
               [transaction_id |-> Strip(df0[i].transaction_id),
                customer_id |-> Strip(df0[i].customer_id),
                product_id |-> Strip(df0[i].product_id),
                transaction_date |-> Strip(df0[i].transaction_date),
                quantity |-> Strip(df0[i].quantity),
                unit_price |-> Strip(df0[i].unit_price)]],
     qc |-> QualityCounts(Len(df0))]

\* lines 351-354
SalesDeduplicate(st) ==
    Deduplicated(st, DropDuplicates(st.df, "transaction_id"))

\* lines 356-362 and 370-371: the parsed date, "" -> None for the two
\* identifiers, the numeric quantity and unit price
SalesParse(st) ==
    [df |-> [i \in 1..Len(st.df) |->
               [transaction_id |-> st.df[i].transaction_id,
                customer_id |-> EmptyToNA(st.df[i].customer_id),
                product_id |-> EmptyToNA(st.df[i].product_id),
                order_date |-> parse_date(st.df[i].transaction_date),
                quantity |-> ToNumeric(st.df[i].quantity),
                unit_price |-> ToNumeric(st.df[i].unit_price)]],
     qc |-> st.qc]

\* lines 359-367
SalesDropMissingIds(st) ==
    Dropped(st,
            RowsAt(st.df, {i \in 1..Len(st.df) :
                             st.df[i].customer_id # NA /\ st.df[i].product_id # NA}),
            "missing customer_id/product_id")

\* SalesDropInvalid with quantity_num >= 0 in place of quantity_num > 0
SalesDropInvalid_ZeroQuantity(st) ==
    Dropped(st,
            RowsAt(st.df, {i \in 1..Len(st.df) :
                             /\ st.df[i].order_date # NoDate
                             /\ st.df[i].quantity # NAN
                             /\ st.df[i].quantity >= 0
                             /\ st.df[i].unit_price # NAN
                             /\ st.df[i].unit_price >= 0}),
            "invalid date/quantity/unit_price")

\* lines 373-385
SalesDropInvalid(st) ==
    Dropped(st,
            RowsAt(st.df, {i \in 1..Len(st.df) :
                             /\ st.df[i].order_date # NoDate
                             /\ st.df[i].quantity # NAN
                             /\ st.df[i].quantity > 0
                             /\ st.df[i].unit_price # NAN
                             /\ st.df[i].unit_price >= 0}),
            "invalid date/quantity/unit_price")

\* lines 387-402
SalesResult(st) ==
    [cleaned |-> [i \in 1..Len(st.df) |->
                    [transaction_id |-> st.df[i].transaction_id,
                     customer_id |-> st.df[i].customer_id,
                     product_id |-> st.df[i].product_id,
                     order_date |-> st.df[i].order_date,
                     quantity |-> st.df[i].quantity,
                     unit_price |-> st.df[i].unit_price,
                     subtotal |-> Subtotal(st.df[i].quantity, st.df[i].unit_price),
                     total_amount |-> Subtotal(st.df[i].quantity, st.df[i].unit_price)]],
     qc |-> st.qc]

transform_sales(df0) ==
    SalesResult(SalesDropInvalid(SalesDropMissingIds(SalesParse(
        SalesDeduplicate(SalesStandardise(df0))))))

(***************************************************************************)
(* The state of a run of main() and of the MySQL store it loads.           *)
(***************************************************************************)
VARIABLES
    customers_csv,          \* data/customers_raw.csv: [exists, rows]
    products_csv,           \* data/products_raw.csv
    sales_csv,              \* data/sales_raw.csv
    pc,                     \* position of main()
    called,                 \* the functions main() has called in this run
    raw,                    \* customers_raw, products_raw, sales_raw
    sales_clean,
    sales_qc,
    customers_clean,
    customer_qc,
    raw_customer_to_email,
    customers_df,           \* df of transform_customers before the projection
    products_clean,
    product_qc,
    raw_product_to_name,
    products_df,            \* df_products of transform_products before the projection
    conn,                   \* "none", "open" or "closed"
    db,                     \* the committed rows of the four tables
    tx,                     \* the rows inserted by conn and not committed
    email_to_db_customer_id,
    name_to_db_product_id,
    load_result,            \* orders_loaded, items_loaded, dropped_fk
    extra_notes,
    report,                 \* what write_report was given, or NoReport
    run                     \* the number of this run of the program

files == <<customers_csv, products_csv, sales_csv>>
cleaned_sales == <<sales_clean, sales_qc>>
cleaned_customers == <<customers_clean, customer_qc, raw_customer_to_email, customers_df>>
cleaned_products == <<products_clean, product_qc, raw_product_to_name, products_df>>
fetched == <<email_to_db_customer_id, name_to_db_product_id>>
store == <<db, tx>>

vars == <<files, pc, called, raw, cleaned_sales, cleaned_customers, cleaned_products,
          conn, store, fetched, load_result, extra_notes, report, run>>

EmptyDict == [k \in {} |-> <<>>]

EmptyTables == [customers |-> <<>>, products |-> <<>>, orders |-> <<>>, order_items |-> <<>>]

NoReport == [written |-> FALSE]

NoLoad == [orders_loaded |-> 0, items_loaded |-> 0, dropped_fk |-> 0]

NoRaw == [customers |-> <<>>, products |-> <<>>, sales |-> <<>>]

\* the memory of a process that has just entered main()
StartOfMain ==
    /\ pc = "extract"
    /\ called = {}
    /\ raw = NoRaw
    /\ sales_clean = <<>>
    /\ sales_qc = QualityCounts(0)
    /\ customers_clean = <<>>
    /\ customer_qc = QualityCounts(0)
    /\ raw_customer_to_email = EmptyDict
    /\ customers_df = <<>>
    /\ products_clean = <<>>
    /\ product_qc = QualityCounts(0)
    /\ raw_product_to_name = EmptyDict
    /\ products_df = <<>>
    /\ conn = "none"
    /\ tx = EmptyTables
    /\ email_to_db_customer_id = EmptyDict
    /\ name_to_db_product_id = EmptyDict
    /\ load_result = NoLoad
    /\ extra_notes = <<>>
    /\ report = NoReport

(***************************************************************************)
(* Extract: read_csv three times.                                          *)
(***************************************************************************)
\* all three files exist
Extract ==
    /\ pc = "extract"
    /\ customers_csv.exists /\ products_csv.exists /\ sales_csv.exists
    /\ raw' = [customers |-> customers_csv.rows, products |-> products_csv.rows,
               sales |-> sales_csv.rows]
    /\ called' = called \cup {"read_csv"}
    /\ pc' = "transform_sales"
    /\ UNCHANGED <<files, cleaned_sales, cleaned_customers, cleaned_products, conn,
                   store, fetched, load_result, extra_notes, report, run>>

\* read_csv raises FileNotFoundError, which nothing in main() catches: the
\* process ends with the traceback
ExtractSourceMissing ==
    /\ pc = "extract"
    /\ ~(customers_csv.exists /\ products_csv.exists /\ sales_csv.exists)
    /\ called' = called \cup {"read_csv"}
    /\ pc' = "crashed"
    /\ UNCHANGED <<files, raw, cleaned_sales, cleaned_customers, cleaned_products, conn,
                   store, fetched, load_result, extra_notes, report, run>>

(***************************************************************************)
(* Transform.                                                              *)
(***************************************************************************)
\* sales_clean, sales_qc = r
SalesCleaned(r) ==
    /\ sales_clean' = r.cleaned
    /\ sales_qc' = r.qc

\* customers_clean, customer_qc, raw_customer_to_email = r
CustomersCleaned(r) ==
    /\ customers_clean' = r.cleaned
    /\ customer_qc' = r.qc
    /\ raw_customer_to_email' = r.raw_to_email
    /\ customers_df' = r.df

\* products_clean, product_qc, raw_product_to_name = r
ProductsCleaned(r) ==
    /\ products_clean' = r.cleaned
    /\ product_qc' = r.qc
    /\ raw_product_to_name' = r.raw_to_name
    /\ products_df' = r.df

TransformSales ==
    /\ pc = "transform_sales"
    /\ SalesCleaned(transform_sales(raw.sales))
    /\ called' = called \cup {"transform_sales"}
    /\ pc' = "transform_customers"
    /\ UNCHANGED <<files, raw, cleaned_customers, cleaned_products, conn,
                   store, fetched, load_result, extra_notes, report, run>>

TransformCustomers ==
    /\ pc = "transform_customers"
    /\ CustomersCleaned(transform_customers(raw.customers))
    /\ called' = called \cup {"transform_customers"}
    /\ pc' = "transform_products"
    /\ UNCHANGED <<files, raw, cleaned_sales, cleaned_products, conn,
                   store, fetched, load_result, extra_notes, report, run>>

TransformProducts ==
    /\ pc = "transform_products"
    /\ ProductsCleaned(transform_products(raw.products, raw.sales))
    /\ called' = called \cup {"transform_products"}
    /\ pc' = "connect_db"
    /\ UNCHANGED <<files, raw, cleaned_sales, cleaned_customers, conn,
                   store, fetched, load_result, extra_notes, report, run>>

(***************************************************************************)
(* Load.                                                                   *)
(***************************************************************************)
\* except Error as e: extra_notes.append(f"MySQL Error: {str(e)}")
StorageFailure ==
    /\ extra_notes' = Append(extra_notes, [note |-> "MySQL Error", n |-> 0])
    /\ pc' = "write_report"

ConnectDb ==
    /\ pc = "connect_db"
    /\ called' = called \cup {"connect_db"}
    /\ conn' = "open"
    /\ pc' = "ensure_schema"
    /\ UNCHANGED <<files, raw, cleaned_sales, cleaned_customers, cleaned_products,
                   store, fetched, load_result, extra_notes, report, run>>

ConnectDbFails ==
    /\ pc = "connect_db"
    /\ called' = called \cup {"connect_db"}
    /\ StorageFailure
    /\ UNCHANGED <<files, raw, cleaned_sales, cleaned_customers, cleaned_products, conn,
                   store, fetched, load_result, report, run>>

\* CREATE TABLE IF NOT EXISTS leaves the rows of the tables as they are
EnsureSchema ==
    /\ pc = "ensure_schema"
    /\ called' = called \cup {"ensure_schema"}
    /\ pc' = "truncate_tables"
    /\ UNCHANGED <<files, raw, cleaned_sales, cleaned_customers, cleaned_products, conn,
                   store, fetched, load_result, extra_notes, report, run>>

EnsureSchemaFails ==
    /\ pc = "ensure_schema"
    /\ called' = called \cup {"ensure_schema"}
    /\ StorageFailure
    /\ UNCHANGED <<files, raw, cleaned_sales, cleaned_customers, cleaned_products, conn,
                   store, fetched, load_result, report, run>>

\* the statements of truncate_tables, in order; the seventh is conn.commit()
TruncateStatements ==
    <<"SET FOREIGN_KEY_CHECKS=0", "order_items", "orders", "products", "customers",
      "SET FOREIGN_KEY_CHECKS=1", "commit">>

\* the tables after the first k statements of truncate_tables: TRUNCATE TABLE
\* commits implicitly, so each takes effect at once
TruncatedAfter(tables, k) ==
    [t \in DOMAIN tables |->
        IF \E i \in 1..k : TruncateStatements[i] = t THEN <<>> ELSE tables[t]]

TruncateTables ==
    /\ pc = "truncate_tables"
    /\ called' = called \cup {"truncate_tables"}
    /\ db' = TruncatedAfter(db, Len(TruncateStatements))
    /\ pc' = "insert_customers"
    /\ UNCHANGED <<files, raw, cleaned_sales, cleaned_customers, cleaned_products, conn,
                   tx, fetched, load_result, extra_notes, report, run>>

\* statement k raises after the k - 1 before it have run
TruncateTablesFails ==
    /\ pc = "truncate_tables"
    /\ called' = called \cup {"truncate_tables"}
    /\ \E k \in 1..Len(TruncateStatements) : db' = TruncatedAfter(db, k - 1)
    /\ StorageFailure
    /\ UNCHANGED <<files, raw, cleaned_sales, cleaned_customers, cleaned_products, conn,
                   tx, fetched, load_result, report, run>>

\* customers.email is UNIQUE NOT NULL and first_name is NOT NULL: the INSERT
\* of row i of rows is rejected
CustomerRejected(rows, i) ==
    \/ rows[i].first_name = NA
    \/ rows[i].email = NA
    \/ \E j \in 1..(i - 1) : rows[j].email = rows[i].email

\* products.price is NOT NULL
ProductRejected(rows, i) == rows[i].price = NAN

\* the customers table after the INSERTs of rows: customer_id is AUTO_INCREMENT
\* and the table has just been truncated
CustomerTable(rows) ==
    [i \in 1..Len(rows) |->
        [customer_id |-> i, first_name |-> rows[i].first_name, email |-> rows[i].email]]

ProductTable(rows) ==
    [i \in 1..Len(rows) |->
        [product_id |-> i, product_name |-> rows[i].product_name,
         price |-> rows[i].price, stock_quantity |-> rows[i].stock_quantity]]

\* customer_qc.loaded = insert_customers(conn, customers_clean)
InsertCustomers ==
    /\ pc = "insert_customers"
    /\ called' = called \cup {"insert_customers"}
    /\ \A i \in 1..Len(customers_clean) : ~CustomerRejected(customers_clean, i)
    /\ db' = [db EXCEPT !.customers = CustomerTable(customers_clean)]
    /\ customer_qc' = [customer_qc EXCEPT !.loaded = Len(customers_clean)]
    /\ pc' = "insert_products"
    /\ UNCHANGED <<files, raw, cleaned_sales, customers_clean, raw_customer_to_email,
                   customers_df, cleaned_products, conn, tx, fetched, load_result,
                   extra_notes, report, run>>

\* the INSERT of row k + 1 raises, or conn.commit() does (k = len(df)): the k
\* rows inserted stay uncommitted
InsertCustomersFails ==
    /\ pc = "insert_customers"
    /\ called' = called \cup {"insert_customers"}
    /\ \E k \in 0..Len(customers_clean) :
          /\ \A i \in 1..k : ~CustomerRejected(customers_clean, i)
          /\ tx' = [tx EXCEPT !.customers = SubSeq(CustomerTable(customers_clean), 1, k)]
    /\ StorageFailure
    /\ UNCHANGED <<files, raw, cleaned_sales, cleaned_customers, cleaned_products, conn,
                   db, fetched, load_result, report, run>>

\* product_qc.loaded = insert_products(conn, products_clean)
InsertProducts ==
    /\ pc = "insert_products"
    /\ called' = called \cup {"insert_products"}
    /\ \A i \in 1..Len(products_clean) : ~ProductRejected(products_clean, i)
    /\ db' = [db EXCEPT !.products = ProductTable(products_clean)]
    /\ product_qc' = [product_qc EXCEPT !.loaded = Len(products_clean)]
    /\ pc' = "fetch_customer_email_to_dbid"
    /\ UNCHANGED <<files, raw, cleaned_sales, cleaned_customers, products_clean,
                   raw_product_to_name, products_df, conn, tx, fetched, load_result,
                   extra_notes, report, run>>

InsertProductsFails ==
    /\ pc = "insert_products"
    /\ called' = called \cup {"insert_products"}
    /\ \E k \in 0..Len(products_clean) :
          /\ \A i \in 1..k : ~ProductRejected(products_clean, i)
          /\ tx' = [tx EXCEPT !.products = SubSeq(ProductTable(products_clean), 1, k)]
    /\ StorageFailure
    /\ UNCHANGED <<files, raw, cleaned_sales, cleaned_customers, cleaned_products, conn,
                   db, fetched, load_result, report, run>>

\* {email: int(cid) for (cid, email) in cur.fetchall()}
FetchCustomerEmailToDbid ==
    /\ pc = "fetch_customer_email_to_dbid"
    /\ called' = called \cup {"fetch_customer_email_to_dbid"}
    /\ LET Email(r) == r.email
           Id(r) == r.customer_id
       IN  email_to_db_customer_id' = DictOf([i \in 1..Len(db.customers) |-> Email(db.customers[i])],
                                            [i \in 1..Len(db.customers) |-> Id(db.customers[i])])
    /\ pc' = "fetch_product_name_to_dbid"
    /\ UNCHANGED <<files, raw, cleaned_sales, cleaned_customers, cleaned_products, conn,
                   store, name_to_db_product_id, load_result, extra_notes, report, run>>

FetchCustomerEmailToDbidFails ==
    /\ pc = "fetch_customer_email_to_dbid"
    /\ called' = called \cup {"fetch_customer_email_to_dbid"}
    /\ StorageFailure
    /\ UNCHANGED <<files, raw, cleaned_sales, cleaned_customers, cleaned_products, conn,
                   store, fetched, load_result, report, run>>

\* {name: int(pid) for (pid, name) in cur.fetchall()}: the SELECT has no ORDER
\* BY, so the rows come in any order and, of the rows with one name, any can
\* be the last
FetchProductNameToDbid ==
    /\ pc = "fetch_product_name_to_dbid"
    /\ called' = called \cup {"fetch_product_name_to_dbid"}
    /\ \E order \in {f \in [1..Len(db.products) -> 1..Len(db.products)] :
                        \A i, j \in 1..Len(db.products) : i # j => f[i] # f[j]} :
          LET rows == [i \in 1..Len(db.products) |-> db.products[order[i]]]
              Name(r) == r.product_name
              Id(r) == r.product_id
          IN  name_to_db_product_id' = DictOf([i \in 1..Len(rows) |-> Name(rows[i])],
                                              [i \in 1..Len(rows) |-> Id(rows[i])])
    /\ pc' = "insert_orders_and_items"
    /\ UNCHANGED <<files, raw, cleaned_sales, cleaned_customers, cleaned_products, conn,
                   store, email_to_db_customer_id, load_result, extra_notes, report, run>>

FetchProductNameToDbidFails ==
    /\ pc = "fetch_product_name_to_dbid"
    /\ called' = called \cup {"fetch_product_name_to_dbid"}
    /\ StorageFailure
    /\ UNCHANGED <<files, raw, cleaned_sales, cleaned_customers, cleaned_products, conn,
                   store, fetched, load_result, report, run>>

(***************************************************************************)
(* insert_orders_and_items and the end of main().                          *)
(***************************************************************************)
\* d.get(k) is truthy and is a key of ids
Mapped(d, k, ids) == k \in DOMAIN d /\ d[k] # <<>> /\ d[k] \in DOMAIN ids

\* neither `continue` of the loop is taken for the sale r
Reconciled(r, raw_to_email, email_ids, raw_to_name, name_ids) ==
    /\ Mapped(raw_to_email, StrOf(r.customer_id), email_ids)
    /\ Mapped(raw_to_name, StrOf(r.product_id), name_ids)

\* the positions in sales of the sales for which neither `continue` is taken
ReconciledRows(sales, raw_to_email, email_ids, raw_to_name, name_ids) ==
    RowsAt([i \in 1..Len(sales) |-> i],
           {i \in 1..Len(sales) :
              Reconciled(sales[i], raw_to_email, email_ids, raw_to_name, name_ids)})

\* lines 494 and 498-500: the orders inserted for the sales at kept; order_id
\* is AUTO_INCREMENT and the table has just been truncated.  src is no column:
\* it is the position in sales of the sale the row was inserted for
OrdersOf(sales, kept, raw_to_email, email_ids) ==
    [k \in 1..Len(kept) |->
        [order_id |-> k,
         customer_id |-> email_ids[raw_to_email[StrOf(sales[kept[k]].customer_id)]],
         order_date |-> sales[kept[k]].order_date,
         total_amount |-> sales[kept[k]].total_amount,
         src |-> kept[k]]]

\* WithItems giving every order item the key of the first order
WithItems_FirstOrderId(sales, kept, orders, raw_to_name, name_ids) ==
    [orders |-> orders,
     items |-> [k \in 1..Len(kept) |->
                  [order_item_id |-> k,
                   order_id |-> orders[1].order_id,
                   product_id |-> name_ids[raw_to_name[StrOf(sales[kept[k]].product_id)]],
                   quantity |-> AsInt(sales[kept[k]].quantity),
                   unit_price |-> sales[kept[k]].unit_price,
                   subtotal |-> sales[kept[k]].subtotal,
                   src |-> kept[k]]],
     dropped_fk |-> Len(sales) - Len(kept)]

\* lines 495 and 503-504: the order items, each with the cur.lastrowid of its
\* order, and the three values returned
WithItems(sales, kept, orders, raw_to_name, name_ids) ==
    [orders |-> orders,
     items |-> [k \in 1..Len(kept) |->
                  [order_item_id |-> k,
                   order_id |-> orders[k].order_id,
                   product_id |-> name_ids[raw_to_name[StrOf(sales[kept[k]].product_id)]],
                   quantity |-> AsInt(sales[kept[k]].quantity),
                   unit_price |-> sales[kept[k]].unit_price,
                   subtotal |-> sales[kept[k]].subtotal,
                   src |-> kept[k]]],
     dropped_fk |-> Len(sales) - Len(kept)]

InsertedFor(sales, kept, raw_to_email, email_ids, raw_to_name, name_ids) ==
    WithItems(sales, kept, OrdersOf(sales, kept, raw_to_email, email_ids),
              raw_to_name, name_ids)

\* the rows the loop of insert_orders_and_items inserts when no statement
\* fails, and its counters
insert_orders_and_items(sales, raw_to_email, email_ids, raw_to_name, name_ids) ==
    InsertedFor(sales,
                ReconciledRows(sales, raw_to_email, email_ids, raw_to_name, name_ids),
                raw_to_email, email_ids, raw_to_name, name_ids)

\* OrdersLoaded without sales_qc.rows_dropped += dropped_fk
OrdersLoaded_DropsNotCounted(r) ==
    /\ db' = [db EXCEPT !.orders = r.orders, !.order_items = r.items]
    /\ load_result' = [orders_loaded |-> Len(r.orders), items_loaded |-> Len(r.items),
                       dropped_fk |-> r.dropped_fk]
    /\ sales_qc' = [sales_qc EXCEPT !.loaded = Len(sales_clean) - r.dropped_fk]
    /\ extra_notes' =
          extra_notes
          \o (IF r.dropped_fk > 0
              THEN <<[note |-> "customer/product could not be mapped", n |-> r.dropped_fk]>>
              ELSE <<>>)
          \o <<[note |-> "Orders inserted", n |-> Len(r.orders)],
               [note |-> "Order items inserted", n |-> Len(r.items)]>>

\* lines 590-599 of main(), r being what insert_orders_and_items inserted
OrdersLoaded(r) ==
    /\ db' = [db EXCEPT !.orders = r.orders, !.order_items = r.items]
    /\ load_result' = [orders_loaded |-> Len(r.orders), items_loaded |-> Len(r.items),
                       dropped_fk |-> r.dropped_fk]
    /\ sales_qc' = [sales_qc EXCEPT
                      !.loaded = Len(sales_clean) - r.dropped_fk,
                      !.rows_dropped = @ + r.dropped_fk]
    /\ extra_notes' =
          extra_notes
          \o (IF r.dropped_fk > 0
              THEN <<[note |-> "customer/product could not be mapped", n |-> r.dropped_fk]>>
              ELSE <<>>)
          \o <<[note |-> "Orders inserted", n |-> Len(r.orders)],
               [note |-> "Order items inserted", n |-> Len(r.items)]>>

\* lines 581-601 of main(): the call and what follows it in the try block
InsertOrdersAndItems ==
    /\ pc = "insert_orders_and_items"
    /\ called' = called \cup {"insert_orders_and_items"}
    /\ OrdersLoaded(insert_orders_and_items(sales_clean, raw_customer_to_email,
           email_to_db_customer_id, raw_product_to_name, name_to_db_product_id))
    /\ conn' = "closed"
    /\ pc' = "write_report"
    /\ UNCHANGED <<files, raw, sales_clean, cleaned_customers, cleaned_products,
                   tx, fetched, report, run>>

\* statement j of the loop raises (the INSERTs of order and item alternate), or
\* conn.commit() does: the rows inserted before it stay uncommitted
OrdersFailed(r) ==
    \E j \in 1..(2 * Len(r.orders) + 1) :
        tx' = [tx EXCEPT !.orders = SubSeq(r.orders, 1, j \div 2),
                         !.order_items = SubSeq(r.items, 1, (j - 1) \div 2)]

InsertOrdersAndItemsFails ==
    /\ pc = "insert_orders_and_items"
    /\ called' = called \cup {"insert_orders_and_items"}
    /\ OrdersFailed(insert_orders_and_items(sales_clean, raw_customer_to_email,
           email_to_db_customer_id, raw_product_to_name, name_to_db_product_id))
    /\ StorageFailure
    /\ UNCHANGED <<files, raw, cleaned_sales, cleaned_customers, cleaned_products, conn,
                   db, fetched, load_result, report, run>>

\* write_report(customer_qc, product_qc, sales_qc, extra_notes), after which
\* the process ends: what its connection left uncommitted is rolled back
WriteReport ==
    /\ pc = "write_report"
    /\ called' = called \cup {"write_report"}
    /\ report' = [written |-> TRUE, customers |-> customer_qc, products |-> product_qc,
                  sales |-> sales_qc, extra_notes |-> extra_notes]
    /\ tx' = EmptyTables
    /\ pc' = "done"
    /\ UNCHANGED <<files, raw, cleaned_sales, cleaned_customers, cleaned_products, conn,
                   db, fetched, load_result, extra_notes, run>>

\* the program is started again on the same files ("Makes the pipeline
\* re-runnable"): a new process, the store as the last run left it
Rerun ==
    /\ pc \in {"done", "crashed"}
    /\ run < MaxRuns
    /\ run' = run + 1
    /\ pc' = "extract"
    /\ called' = {}
    /\ raw' = NoRaw
    /\ sales_clean' = <<>>
    /\ sales_qc' = QualityCounts(0)
    /\ customers_clean' = <<>>
    /\ customer_qc' = QualityCounts(0)
    /\ raw_customer_to_email' = EmptyDict
    /\ customers_df' = <<>>
    /\ products_clean' = <<>>
    /\ product_qc' = QualityCounts(0)
    /\ raw_product_to_name' = EmptyDict
    /\ products_df' = <<>>
    /\ conn' = "none"
    /\ tx' = EmptyTables
    /\ email_to_db_customer_id' = EmptyDict
    /\ name_to_db_product_id' = EmptyDict
    /\ load_result' = NoLoad
    /\ extra_notes' = <<>>
    /\ report' = NoReport
    /\ UNCHANGED <<files, db>>

(***************************************************************************)
(* The files the program is run on.                                        *)
(***************************************************************************)
SeqsUpTo(S, n) == UNION {[1..k -> S] : k \in 0..n}

File(rows) == [exists |-> TRUE, rows |-> rows]

MissingFile == [exists |-> FALSE, rows |-> <<>>]

Blank == <<" ">>
A_DATE == <<"0", "1", "-", "0", "2", "-", "2", "0", "2", "4">>
TEN == <<"1", "0", ".", "0", "0">>
TWELVE == <<"1", "2", ".", "0", "0">>
FOURTEEN == <<"1", "4", ".", "0", "0">>

Customer(id, first, email) == [customer_id |-> id, first_name |-> first, email |-> email]

Product(id, name, price, stock) ==
    [product_id |-> id, product_name |-> name, price |-> price, stock_quantity |-> stock]

Sale(tid, cid, pid, d, q, p) ==
    [transaction_id |-> tid, customer_id |-> cid, product_id |-> pid,
     transaction_date |-> d, quantity |-> q, unit_price |-> p]

\* customer rows for the customer cleaner
CustomerSamples ==
    {Customer(id, <<"x">>, email) :
        id \in {<<"C", "1">>, <<"C", "2">>},
        email \in {NA, Blank, <<"a">>, <<"a", " ">>, <<"b">>}}
    \cup {Customer(<<"C", "1">>, <<"y">>, email) : email \in {NA, <<"a">>}}

\* product rows for the product cleaner
ProductSamples ==
    { Product(<<"P", "1">>, <<"w">>, NA, NA),
      Product(<<"P", "1">>, <<"v">>, TEN, <<"5">>),
      Product(<<"P", "1", " ">>, <<"u">>, <<"a", "b", "c">>, Blank),
      Product(<<"P", "2">>, <<"w">>, Blank, <<"5">>),
      Product(<<"P", "2">>, <<"v">>, <<"-", "5">>, NA) }

\* sales rows for the product cleaner: the product and the unit price vary
PriceSamples ==
    {Sale(<<"T">> \o p, <<"C", "1">>, pid, A_DATE, <<"1">>, p) :
        pid \in {<<"P", "1">>},
        p \in {TEN, TWELVE, FOURTEEN, <<"1", "0", ".", "0", "0", "5">>, <<"x">>}}
    \cup {Sale(<<"T", "2">>, <<"C", "1">>, <<" ", "P", "2">>, A_DATE, <<"1">>, <<"-", "3">>)}

\* sales rows for the sales cleaner: one good row and rows that differ from it
\* in one or two cells
SaleSamples ==
    LET good == Sale(<<"T", "1">>, <<"C", "1">>, <<"P", "1">>, A_DATE, <<"2">>, TWELVE)
    IN  { good,
          [good EXCEPT !.transaction_id = <<"T", "1", " ">>, !.quantity = <<"3">>],
          [good EXCEPT !.transaction_id = <<"T", "2">>, !.customer_id = Blank],
          [good EXCEPT !.transaction_id = <<"T", "2">>, !.product_id = NA],
          [good EXCEPT !.transaction_id = <<"T", "2">>, !.transaction_date = <<"x">>],
          [good EXCEPT !.transaction_id = <<"T", "2">>, !.transaction_date = NA],
          [good EXCEPT !.transaction_id = <<"T", "2">>, !.quantity = <<"0">>],
          [good EXCEPT !.transaction_id = <<"T", "3">>, !.quantity = <<"-", "1">>],
          [good EXCEPT !.transaction_id = <<"T", "3">>, !.quantity = <<"q">>],
          [good EXCEPT !.transaction_id = <<"T", "3">>, !.quantity = <<"1", ".", "5">>,
                       !.unit_price = <<"9", ".", "9", "9", "1">>],
          [good EXCEPT !.transaction_id = <<"T", "3">>, !.unit_price = <<"-", "3">>],
          [good EXCEPT !.transaction_id = <<"T", "3">>, !.unit_price = NA] }

\* the rows of the runs that load the store
LoadCustomers ==
    { Customer(<<"C", "1">>, <<"x">>, NA),
      Customer(<<"C", "1">>, <<"y">>, <<"a">>),
      Customer(<<"C", "2">>, <<"x">>, <<"b">>) }

LoadProducts ==
    { Product(<<"P", "1">>, <<"w">>, TEN, NA),
      Product(<<"P", "2">>, <<"w">>, TWELVE, NA),
      Product(<<"P", "2">>, <<"v">>, NA, NA) }

LoadSales ==
    { Sale(<<"T", "1">>, <<"C", "1">>, <<"P", "1">>, A_DATE, <<"2">>, TEN),
      Sale(<<"T", "2">>, <<"C", "2">>, <<"P", "2">>, A_DATE, <<"1">>, TWELVE),
      Sale(<<"T", "2">>, <<"C", "1">>, <<"P", "2">>, A_DATE, <<"0">>, TWELVE) }

\* the files exist, or one of them does not
FilesOf(customers, products, sales) ==
    /\ customers_csv \in {File(customers)}
    /\ products_csv \in {File(products)}
    /\ sales_csv \in {File(sales)}

OneFileMissing ==
    \E f \in 1..3 :
        /\ customers_csv = IF f = 1 THEN MissingFile ELSE File(<<>>)
        /\ products_csv = IF f = 2 THEN MissingFile ELSE File(<<>>)
        /\ sales_csv = IF f = 3 THEN MissingFile ELSE File(<<>>)

FirstRun == StartOfMain /\ run = 1 /\ db = EmptyTables

(***************************************************************************)
(* Specifications.                                                         *)
(***************************************************************************)
\* one run of main() on a store that is empty
Init ==
    /\ \/ \E c \in SeqsUpTo(LoadCustomers, MaxLoadRows),
             p \in SeqsUpTo(LoadProducts, MaxLoadRows),
             s \in SeqsUpTo(LoadSales, MaxLoadRows) : FilesOf(c, p, s)
       \/ OneFileMissing
    /\ FirstRun

Load ==
    \/ ConnectDb \/ ConnectDbFails
    \/ EnsureSchema \/ EnsureSchemaFails
    \/ TruncateTables \/ TruncateTablesFails
    \/ InsertCustomers \/ InsertCustomersFails
    \/ InsertProducts \/ InsertProductsFails
    \/ FetchCustomerEmailToDbid \/ FetchCustomerEmailToDbidFails
    \/ FetchProductNameToDbid \/ FetchProductNameToDbidFails
    \/ InsertOrdersAndItems \/ InsertOrdersAndItemsFails

Next ==
    \/ Extract \/ ExtractSourceMissing
    \/ TransformSales \/ TransformCustomers \/ TransformProducts
    \/ Load
    \/ WriteReport

Spec == Init /\ [][Next]_vars

\* runs of main() one after another on the same store
InitRerun ==
    /\ \/ \E c \in SeqsUpTo(LoadCustomers, 1),
             p \in SeqsUpTo(LoadProducts, 1),
             s \in SeqsUpTo(LoadSales, 1) : FilesOf(c, p, s)
       \/ OneFileMissing
    /\ FirstRun

NextRerun == Next \/ Rerun

SpecRerun == InitRerun /\ [][NextRerun]_vars

\* the extract and transform stages of main() on larger files
InitClean ==
    /\ \/ \E c \in SeqsUpTo(CustomerSamples, MaxCustomers) : FilesOf(c, <<>>, <<>>)
       \/ \E p \in SeqsUpTo(ProductSamples, MaxProducts),
             s \in SeqsUpTo(PriceSamples, MaxSales) : FilesOf(<<>>, p, s)
       \/ \E s \in SeqsUpTo(SaleSamples, MaxSales) : FilesOf(<<>>, <<>>, s)
       \/ OneFileMissing
    /\ FirstRun

NextClean ==
    \/ Extract \/ ExtractSourceMissing
    \/ TransformSales \/ TransformCustomers \/ TransformProducts

SpecClean == InitClean /\ [][NextClean]_vars

(***************************************************************************)
(* Properties.                                                             *)
(***************************************************************************)
Range(f) == {f[x] : x \in DOMAIN f}

Absent(cell) == cell = NA \/ Strip(cell) = <<>>

Did(f) == f \in called

\* C1: every record of the cleaned Product set returned by transform_products
\* has a price that is present and is >= 0.
C1_PricePresentAndNonNegative ==
    \A i \in 1..Len(products_clean) :
        products_clean[i].price # NAN /\ products_clean[i].price >= 0

\* the first row of df whose cell Key(row), trimmed, is k
FirstWith(df, Key(_), k) ==
    CHOOSE i \in 1..Len(df) : Strip(Key(df[i])) = k /\ \A j \in 1..(i - 1) : Strip(Key(df[j])) # k

CustomerKey(r) == r.email
ProductKey(r) == r.product_id
SaleKey(r) == r.transaction_id

\* C2: deduplication is keep-first in the three cleaners: a surviving row has
\* the non-key fields of the first input row with its key, also when that
\* first row fails a required-field check.
C2_KeepFirst ==
    /\ \A k \in 1..Len(customers_df) :
          customers_df[k].first_name =
              Strip(raw.customers[FirstWith(raw.customers, CustomerKey,
                                            customers_df[k].email)].first_name)
    /\ \A k \in 1..Len(products_df) :
          products_df[k].product_name =
              StrOf(raw.products[FirstWith(raw.products, ProductKey,
                                           products_df[k].product_id)].product_name)
    /\ \A k \in 1..Len(sales_clean) :
          sales_clean[k].quantity =
              ToNumeric(raw.sales[FirstWith(raw.sales, SaleKey,
                                            sales_clean[k].transaction_id)].quantity)

Transforms == {"transform_sales", "transform_customers", "transform_products"}

StorageOperations ==
    {"connect_db", "ensure_schema", "truncate_tables", "insert_customers", "insert_products",
     "fetch_customer_email_to_dbid", "fetch_product_name_to_dbid", "insert_orders_and_items"}

\* C3: every run that terminates has invoked write_report, and a run ended by
\* a missing input file has executed no transform and no storage operation.
C3_ReportAlwaysWritten ==
    /\ pc \in {"done", "crashed"} => Did("write_report")
    /\ pc = "crashed" => called \cap (Transforms \cup StorageOperations) = {}

\* the sale at position i of sales_clean has both references resolved
Resolves(i) ==
    /\ \E e \in Range(raw_customer_to_email) :
          /\ StrOf(sales_clean[i].customer_id) \in DOMAIN raw_customer_to_email
          /\ raw_customer_to_email[StrOf(sales_clean[i].customer_id)] = e
          /\ e \in DOMAIN email_to_db_customer_id
    /\ \E n \in Range(raw_product_to_name) :
          /\ StrOf(sales_clean[i].product_id) \in DOMAIN raw_product_to_name
          /\ raw_product_to_name[StrOf(sales_clean[i].product_id)] = n
          /\ n \in DOMAIN name_to_db_product_id

\* C4: every Order inserted carries a customer key of the fetched email map,
\* every OrderItem a product key of the fetched name map and the key of its
\* own Order; a sale with a reference unresolved has neither, and as many
\* Orders as OrderItems are inserted.
C4_ReconciliationSound ==
    /\ \A t \in {db, tx} :
          /\ \A k \in 1..Len(t.orders) :
                /\ t.orders[k].customer_id \in Range(email_to_db_customer_id)
                /\ Resolves(t.orders[k].src)
          /\ \A k \in 1..Len(t.order_items) :
                /\ t.order_items[k].product_id \in Range(name_to_db_product_id)
                /\ Resolves(t.order_items[k].src)
                /\ \E o \in 1..Len(t.orders) :
                      /\ t.orders[o].order_id = t.order_items[k].order_id
                      /\ t.orders[o].src = t.order_items[k].src
                /\ \A o \in 1..Len(t.order_items) :
                      o # k => t.order_items[o].order_id # t.order_items[k].order_id
    /\ Len(db.orders) = Len(db.order_items)
    /\ load_result.orders_loaded = load_result.items_loaded
    /\ Did("insert_orders_and_items") /\ conn = "closed" =>
          /\ load_result.orders_loaded = Len(db.orders)
          /\ \A i \in 1..Len(sales_clean) :
                Resolves(i) <=> \E k \in 1..Len(db.orders) : db.orders[k].src = i

C4_Witness ==
    /\ pc = "done"
    /\ Len(db.orders) = 1
    /\ Len(db.order_items) = 1
    /\ load_result.dropped_fk = 1

\* C5: after a run in which a storage operation failed, each table holds as
\* many rows as the report shows loaded for its stream.
C5_TablesMatchReport ==
    pc = "done" /\ (\E i \in 1..Len(report.extra_notes) :
                       report.extra_notes[i].note = "MySQL Error")
    => /\ Len(db.customers) = report.customers.loaded
       /\ Len(db.products) = report.products.loaded
       /\ Len(db.orders) = report.sales.loaded
       /\ Len(db.order_items) = report.sales.loaded

\* C6: every cleaned Customer has a non-empty email, no two have the same
\* email, and every value of the raw-id -> email map is the email of one.
C6_CustomerEmails ==
    /\ \A i \in 1..Len(customers_clean) :
          /\ customers_clean[i].email # NA
          /\ customers_clean[i].email # <<>>
          /\ \A j \in 1..Len(customers_clean) :
                i # j => customers_clean[i].email # customers_clean[j].email
    /\ \A e \in Range(raw_customer_to_email) :
          \E i \in 1..Len(customers_clean) : customers_clean[i].email = e

C6_Witness ==
    /\ Did("transform_customers")
    /\ customer_qc.rows_dropped >= 1
    /\ customer_qc.duplicates_removed >= 1
    /\ Len(customers_clean) >= 1
    /\ DOMAIN raw_customer_to_email # {}

HalfCent == Scale * (Scale \div 100)

\* C7: every cleaned Sale has an order_date, both references, quantity > 0,
\* unit_price >= 0, subtotal = round(quantity x unit_price, 2) and
\* total_amount = subtotal, and no two have one transaction_id.
C7_CleanedSales ==
    \A i \in 1..Len(sales_clean) :
        LET r == sales_clean[i]
        IN  /\ r.order_date # NoDate
            /\ r.order_date.m \in 1..12 /\ r.order_date.d \in 1..31
            /\ ~Absent(r.customer_id) /\ ~Absent(r.product_id)
            /\ r.quantity # NAN /\ r.quantity > 0
            /\ r.unit_price # NAN /\ r.unit_price >= 0
            /\ r.subtotal % (Scale \div 100) = 0
            /\ 2 * (r.subtotal * Scale - r.quantity * r.unit_price) <= HalfCent
            /\ 2 * (r.quantity * r.unit_price - r.subtotal * Scale) <= HalfCent
            /\ r.total_amount = r.subtotal
            /\ \A j \in 1..Len(sales_clean) :
                  i # j => sales_clean[j].transaction_id # r.transaction_id

C7_Witness ==
    /\ Did("transform_sales")
    /\ sales_qc.duplicates_removed >= 1
    /\ sales_qc.rows_dropped >= 1
    /\ \E i \in 1..Len(sales_clean) :
          (sales_clean[i].quantity * sales_clean[i].unit_price) % HalfCent # 0

\* the product row at position i of products_raw has no price
NoPrice(i) == Absent(raw.products[i].price)

\* the rows of sales_raw that reference the product of row i of products_raw
\* and have a numeric unit_price
PricedSalesOf(i) ==
    {j \in 1..Len(raw.sales) :
        /\ ~Absent(raw.sales[j].product_id)
        /\ Strip(raw.sales[j].product_id) = StrOf(raw.products[i].product_id)
        /\ ToNumeric(raw.sales[j].unit_price) # NAN}

UnitPrice(j) == ToNumeric(raw.sales[j].unit_price)

\* x is the r-th smallest of the unit prices of the sales rows J
AtRank(x, r, J) ==
    /\ Cardinality({j \in J : UnitPrice(j) < x}) < r
    /\ r <= Cardinality({j \in J : UnitPrice(j) <= x})

\* the unit prices of the sales rows a and b of J are the two middle ones of
\* J in order of size (one and the same when the number of rows is odd), so
\* that the median of J is their mean
MiddleOnes(a, b, J) ==
    /\ AtRank(UnitPrice(a), (Cardinality(J) + 1) \div 2, J)
    /\ AtRank(UnitPrice(b), (Cardinality(J) \div 2) + 1, J)

\* the text t is the mean of x and y written with two decimals: a multiple
\* of 0.01 at most half of 0.01 away from it
TwoDecimalsOfMean(t, x, y) ==
    /\ Len(t) >= 4 /\ t[Len(t) - 2] = "."
    /\ ToNumeric(t) # NAN
    /\ ToNumeric(t) % (Scale \div 100) = 0
    /\ 2 * ToNumeric(t) - (x + y) <= Scale \div 100
    /\ (x + y) - 2 * ToNumeric(t) <= Scale \div 100

\* C8: a product row with empty price receives the median of the numeric
\* unit prices of all raw sales rows of its product, written with two
\* decimals, and missing_filled counts one per price filled; with no such
\* sales row the row is dropped and counted in rows_dropped.
C8_PriceImputation ==
    Did("transform_products") =>
        /\ product_qc.missing_filled =
              Cardinality({i \in 1..Len(raw.products) : Absent(raw.products[i].stock_quantity)})
              + Cardinality({i \in 1..Len(raw.products) :
                               NoPrice(i) /\ PricedSalesOf(i) # {}})
        /\ product_qc.rows_dropped =
              Cardinality({i \in 1..Len(raw.products) : NoPrice(i) /\ PricedSalesOf(i) = {}})
        /\ \A k \in 1..Len(products_df) :
              \E i \in 1..Len(raw.products) :
                 /\ Strip(raw.products[i].product_id) = products_df[k].product_id
                 /\ StrOf(raw.products[i].product_name) = products_df[k].product_name
                 /\ ~NoPrice(i) => products_df[k].price = Strip(raw.products[i].price)
                 /\ NoPrice(i) =>
                       /\ PricedSalesOf(i) # {}
                       /\ \E a, b \in PricedSalesOf(i) :
                             /\ MiddleOnes(a, b, PricedSalesOf(i))
                             /\ TwoDecimalsOfMean(products_df[k].price,
                                                  UnitPrice(a), UnitPrice(b))
                       /\ products_clean[k].price = ToNumeric(products_df[k].price)

\* sales unit prices [10.00, 12.00, 14.00] of a product without price give 12.00
C8_Witness ==
    /\ Did("transform_products")
    /\ Len(raw.products) = 1 /\ NoPrice(1)
    /\ {raw.sales[j].unit_price : j \in PricedSalesOf(1)} = {TEN, TWELVE, FOURTEEN}
    /\ Len(raw.sales) = 3
    /\ products_df[1].price = TWELVE
    /\ products_clean[1].price = 12 * Scale
    /\ product_qc.missing_filled = 2

\* the raw customer identifiers of the rows of customers_raw without email
DroppedForMissingEmail ==
    {StrOf(raw.customers[i].customer_id) :
        i \in {j \in 1..Len(raw.customers) : Absent(raw.customers[j].email)}}

\* the raw customer identifiers of the customer rows that survive cleaning
SurvivingCustomers == {StrOf(customers_df[k].customer_id) : k \in 1..Len(customers_df)}

LoadCompleted == pc = "done" /\ Did("insert_orders_and_items") /\ conn = "closed"

\* the sales of sales_clean for which no Order was inserted
Unreconciled == {i \in 1..Len(sales_clean) : \A k \in 1..Len(db.orders) : db.orders[k].src # i}

CleaningNotes ==
    {"missing customer_id/product_id", "invalid date/quantity/unit_price", "missing email",
     "missing price"}

\* the sales of S have no Order and no OrderItem; every sale without Order is
\* counted once in the rows_dropped of the sales stream beyond the drops of
\* the cleaning, and a note of its own says so
DroppedAtReconciliation(S) ==
    /\ \A i \in S :
          /\ \A k \in 1..Len(db.orders) : db.orders[k].src # i
          /\ \A k \in 1..Len(db.order_items) : db.order_items[k].src # i
    /\ S \subseteq Unreconciled
    /\ report.sales.rows_dropped =
          (Len(raw.sales) - report.sales.duplicates_removed - Len(sales_clean))
          + Cardinality(Unreconciled)
    /\ S # {} =>
          /\ \E n \in 1..Len(report.extra_notes) :
                /\ report.extra_notes[n].note \notin CleaningNotes
                /\ report.extra_notes[n].note # "MySQL Error"
                /\ report.extra_notes[n].n = Cardinality(Unreconciled)
          /\ \A n \in 1..Len(report.sales.notes) :
                report.sales.notes[n].note \in CleaningNotes

\* C9 as stated: a cleaned sale whose raw customer reference is the raw
\* identifier of a customer row dropped for missing email is never reconciled.
C9_DroppedCustomerNeverReconciled ==
    LoadCompleted =>
        DroppedAtReconciliation({i \in 1..Len(sales_clean) :
            StrOf(sales_clean[i].customer_id) \in DroppedForMissingEmail})

\* C9 amended: a cleaned sale whose raw customer reference is the raw
\* identifier of a customer row dropped for missing email, and of no customer
\* row that survives cleaning, is dropped at reconciliation, counted once and
\* noted, in every run whose load completes.
C9_Amended ==
    LoadCompleted =>
        DroppedAtReconciliation({i \in 1..Len(sales_clean) :
            /\ StrOf(sales_clean[i].customer_id) \in DroppedForMissingEmail
            /\ StrOf(sales_clean[i].customer_id) \notin SurvivingCustomers})

C9_Witness ==
    /\ LoadCompleted
    /\ \E i \in 1..Len(sales_clean) :
          /\ StrOf(sales_clean[i].customer_id) \in DroppedForMissingEmail
          /\ StrOf(sales_clean[i].customer_id) \notin SurvivingCustomers
    /\ Len(db.orders) >= 1

\* C10: the OrderItem of a sale carries the key that storage assigned to the
\* cleaned product whose raw identifier is the sale's product reference, and
\* its Order the key of the cleaned customer whose raw identifier is the
\* sale's customer reference.
C10_ResolvesToNamedEntity ==
    /\ \A k \in 1..Len(db.order_items) :
          \E p \in 1..Len(products_df) :
             /\ StrOf(products_df[p].product_id) =
                   StrOf(sales_clean[db.order_items[k].src].product_id)
             /\ p <= Len(db.products)
             /\ db.order_items[k].product_id = db.products[p].product_id
    /\ \A k \in 1..Len(db.orders) :
          \E c \in 1..Len(customers_df) :
             /\ StrOf(customers_df[c].customer_id) =
                   StrOf(sales_clean[db.orders[k].src].customer_id)
             /\ c <= Len(db.customers)
             /\ db.orders[k].customer_id = db.customers[c].customer_id

\* every row read is removed as a duplicate, dropped, or loaded
Conserved(qc) == qc.rows_read = qc.duplicates_removed + qc.rows_dropped + qc.loaded

\* C11: at the end of a run whose load completes, each of the three
\* QualityCounts of the report has rows_read = duplicates_removed +
\* rows_dropped + loaded, rows_read being the number of rows of the raw file;
\* for sales, rows_dropped counts the rows the cleaning dropped and the rows
\* skipped at reconciliation, and loaded is the number of Orders inserted.
C11_RowAccountingConserved ==
    LoadCompleted =>
        /\ report.written
        /\ report.customers.rows_read = Len(raw.customers)
        /\ report.products.rows_read = Len(raw.products)
        /\ report.sales.rows_read = Len(raw.sales)
        /\ Conserved(report.customers)
        /\ Conserved(report.products)
        /\ Conserved(report.sales)
        /\ report.customers.loaded = Len(db.customers)
        /\ report.products.loaded = Len(db.products)
        /\ report.sales.loaded = Len(db.orders)
        /\ report.sales.rows_dropped =
              (Len(raw.sales) - report.sales.duplicates_removed - Len(sales_clean))
              + Cardinality(Unreconciled)

\* a completed load with a customer row dropped, a duplicate product row
\* removed, a sale loaded and a sale skipped at reconciliation
C11_Witness ==
    /\ LoadCompleted
    /\ report.customers.rows_dropped >= 1
    /\ report.products.duplicates_removed >= 1
    /\ Len(db.orders) >= 1
    /\ Unreconciled # {}

=============================================================================
